---------------------------- MODULE Spec2Model ----------------------------
(***************************************************************************)
(* Grid trading plan calculator: the calculation engine.                   *)
(*                                                                         *)
(* Two implementations of the engine live in the repository and both are   *)
(* modelled: the module-level functions of src/src/calculations.py (called *)
(* "legacy" below) and the methods of class TradingLogic in                *)
(* src/src/core/trading_logic.py.                                          *)
(*                                                                         *)
(* Money is counted in cents, so every input is an integer.  A grid price  *)
(* produced by np.linspace is a rational number; it is kept as an integer  *)
(* numerator over the common denominator Den(n) = n - 1.  Arithmetic is    *)
(* exact: the rounding error of IEEE doubles is not modelled.  np.exp is   *)
(* evaluated in fixed point with ExpScale fractional digits.               *)
(*                                                                         *)
(* The leftover loop of calculate_buy_plan is modelled a second time, step *)
(* by step and in rounded binary floating point (section LeftoverLoop).    *)
(***************************************************************************)
EXTENDS Integers, Sequences, FiniteSets, TLC

VARIABLES
    input_values,   \* the caller's request dict (funds, initial_price, ...)
    config,         \* the process-wide configuration read by TradingLogic
    result,         \* outcome of the last engine call on input_values
    prev,           \* outcome of the calculate_buy_plan call before it
    instruction_text,   \* the text given to the instruction parser
    external_price,     \* the price given with it, None without one
    parsed,             \* outcome of the last parse of instruction_text
    loop,               \* locals of a calculate_buy_plan call run step by step
    gui                 \* the legacy GUI: its globals, threads and callbacks

engine_vars == <<input_values, config, result, prev>>
parser_vars == <<instruction_text, external_price, parsed>>
vars == <<engine_vars, parser_vars, loop, gui>>

---------------------------------------------------------------------------
(* Bounds of the model and constants of the program *)

MaxRequestedGrids == 4          \* num_grids is drawn from 0..MaxRequestedGrids
HardMaxGrids == 100             \* validate_inputs: "if num_grids > 100"
ExpFactor == 3                  \* np.exp(3 * (max_price - price) / price_range)
ExpScale == 1000000             \* fixed-point unit of a weight
ExpTerms == 30                  \* terms of the exponential series evaluated
MaxInstructionLen == 4          \* characters of an instruction drawn freely

FundsChoices == {-100, 0, 500, 2500, 10000}
InitialPriceChoices == {0, 1000}
StopLossChoices == {0, 100, 900, 1000}
NumGridsChoices == (0..MaxRequestedGrids) \cup {HardMaxGrids + 1}
MethodChoices == {0, 1, 2, 3}
ReservePercentages == {0, 25, 100}
MaxNumGridsChoices == {3, HardMaxGrids + 1}
DefaultMethodChoices == {0, 1}

---------------------------------------------------------------------------
(* Arithmetic helpers *)

Max(a, b) == IF a >= b THEN a ELSE b
Min(a, b) == IF a <= b THEN a ELSE b

\* Python int() of a non-negative quotient a / b: the floor.
IntDiv(a, b) == a \div b

RECURSIVE SumSeq(_)
SumSeq(s) == IF s = <<>> THEN 0 ELSE Head(s) + SumSeq(Tail(s))

\* sum(price * quantity for price, quantity in zip(prices, quantities))
RECURSIVE Dot(_, _)
Dot(p, q) == IF p = <<>> THEN 0 ELSE Head(p) * Head(q) + Dot(Tail(p), Tail(q))

\* round(x) of the rational num / den (den > 0, num >= 0), ties to even.
RoundHalfEven(num, den) ==
    LET f == num \div den
        r == num % den
    IN  IF 2 * r < den THEN f
        ELSE IF 2 * r > den THEN f + 1
        ELSE IF f % 2 = 0 THEN f ELSE f + 1

---------------------------------------------------------------------------
(* InputValidator *)

ErrFunds == "total funds must be positive"
ErrInitialPrice == "initial price must be positive"
ErrStopLoss == "stop-loss price must be positive"
ErrNumGrids == "grid count must be a positive integer"
ErrMethod == "allocation method must be 0, 1 or 2"
ErrStopNotBelow == "stop-loss price must be below initial price"
ErrFundsBelowPrice == "total funds must exceed initial price"
ErrTooManyGrids == "grid count must not exceed 100"
ErrGridRange == "grid count must be above 0 and at most max_num_grids"
ErrCurrentPrice == "current price must be above 0"
NoError == ""

\* validate_inputs with the comparison of funds with the initial price made
\* before the comparison of the two prices.
validate_inputs_reordered(funds, initial_price, stop_loss_price, num_grids, allocation_method) ==
    IF funds <= 0 THEN ErrFunds
    ELSE IF initial_price <= 0 THEN ErrInitialPrice
    ELSE IF stop_loss_price <= 0 THEN ErrStopLoss
    ELSE IF num_grids <= 0 THEN ErrNumGrids
    ELSE IF allocation_method \notin {0, 1, 2} THEN ErrMethod
    ELSE IF funds < initial_price THEN ErrFundsBelowPrice
    ELSE IF stop_loss_price >= initial_price THEN ErrStopNotBelow
    ELSE IF num_grids > HardMaxGrids THEN ErrTooManyGrids
    ELSE NoError

\* The message of the exception validate_inputs raises, NoError when it
\* returns normally.
validate_inputs(funds, initial_price, stop_loss_price, num_grids, allocation_method) ==
    IF funds <= 0 THEN ErrFunds
    ELSE IF initial_price <= 0 THEN ErrInitialPrice
    ELSE IF stop_loss_price <= 0 THEN ErrStopLoss
    ELSE IF num_grids <= 0 THEN ErrNumGrids
    ELSE IF allocation_method \notin {0, 1, 2} THEN ErrMethod
    ELSE IF stop_loss_price >= initial_price THEN ErrStopNotBelow
    ELSE IF funds < initial_price THEN ErrFundsBelowPrice
    ELSE IF num_grids > HardMaxGrids THEN ErrTooManyGrids
    ELSE NoError

---------------------------------------------------------------------------
(* PriceGridGenerator *)

\* Common denominator of the prices np.linspace(start, stop, num) returns.
Den(num) == IF num <= 1 THEN 1 ELSE num - 1

\* linspace with its end points exchanged: np.linspace(stop, start, num).
linspace_ascending(start, stop, num) ==
    [i \in 1..num |-> stop * Den(num) + (i - 1) * (start - stop)]

\* np.linspace(start, stop, num): the numerators over Den(num) of
\* start + i * (stop - start) / (num - 1), i = 0..num-1.
linspace(start, stop, num) ==
    [i \in 1..num |-> start * Den(num) + (i - 1) * (stop - start)]

SeqMax(s) == CHOOSE x \in {s[i] : i \in 1..Len(s)} :
                \A j \in 1..Len(s) : s[j] <= x
SeqMin(s) == CHOOSE x \in {s[i] : i \in 1..Len(s)} :
                \A j \in 1..Len(s) : s[j] >= x

---------------------------------------------------------------------------
(* AllocationWeighter *)

\* Terms k, k+1, ... of the series of exp(num / den), in units of 1/ExpScale.
RECURSIVE ExpSeries(_, _, _, _)
ExpSeries(term, k, num, den) ==
    IF term = 0 \/ k > ExpTerms THEN 0
    ELSE term + ExpSeries(RoundHalfEven(term * num, den * k), k + 1, num, den)

RECURSIVE GCD(_, _)
GCD(a, b) == IF b = 0 THEN a ELSE GCD(b, a % b)

\* np.exp(num / den) for num >= 0, in units of 1/ExpScale; the fraction is
\* reduced first to keep the products of the series small.
np_exp(num, den) ==
    LET g == GCD(num, den)
    IN  ExpSeries(ExpScale, 1, num \div g, den \div g)

\* [1.0] * num_prices
equal_amount_allocation(num_prices) == [i \in 1..num_prices |-> 1]

\* exponential_allocation with the exponent measured from the lowest price:
\* np.exp(3 * (price - min_price) / price_range).
exponential_allocation_from_min(prices) ==
    LET max_price == SeqMax(prices)
        min_price == SeqMin(prices)
        price_range == max_price - min_price
    IN  IF price_range = 0 THEN [i \in 1..Len(prices) |-> 1]
        ELSE [i \in 1..Len(prices) |->
                 np_exp(ExpFactor * (prices[i] - min_price), price_range)]

\* [np.exp(3 * (max_price - price) / price_range) for price in prices]
exponential_allocation(prices) ==
    LET max_price == SeqMax(prices)
        min_price == SeqMin(prices)
        price_range == max_price - min_price
    IN  IF price_range = 0 THEN [i \in 1..Len(prices) |-> 1]
        ELSE [i \in 1..Len(prices) |->
                 np_exp(ExpFactor * (max_price - prices[i]), price_range)]

\* list(range(1, num_prices + 1))
linear_weighted_allocation(num_prices) == [i \in 1..num_prices |-> i]

\* The weights calculate_weights selects for a method.
allocation_methods(prices, method) ==
    CASE method = 0 -> equal_amount_allocation(Len(prices))
      [] method = 1 -> exponential_allocation(prices)
      [] method = 2 -> linear_weighted_allocation(Len(prices))
      [] OTHER -> <<>>

---------------------------------------------------------------------------
(* ShareAllocator *)

\* calculate_weights: share counts before budget reconciliation.
calculate_weights(prices, method, max_shares) ==
    IF Len(prices) = 1 THEN <<max_shares>>
    ELSE LET weights == allocation_methods(prices, method)
             total_weight == SumSeq(weights)
         IN  [i \in 1..Len(weights) |->
                 Max(1, IntDiv(max_shares * weights[i], total_weight))]

\* The method 0 branch of the legacy calculate_buy_plan:
\* target_amount_per_grid = funds / num_grids,
\* max(1, int(target_amount_per_grid / price)) for each price.
legacy_equal_quantities(prices, den, funds, num_grids) ==
    [i \in 1..Len(prices) |->
        Max(1, IntDiv(funds * den, num_grids * prices[i]))]

\* scale_quantities without the floor of one share per grid.
scale_quantities_unfloored(prices, den, quantities, funds) ==
    LET total_cost == Dot(prices, quantities)
    IN  IF total_cost > funds * den
        THEN [i \in 1..Len(quantities) |->
                 IntDiv(quantities[i] * funds * den, total_cost)]
        ELSE quantities

\* scale_quantities with round() in the place of int().
scale_quantities_rounded(prices, den, quantities, funds) ==
    LET total_cost == Dot(prices, quantities)
    IN  IF total_cost > funds * den
        THEN [i \in 1..Len(quantities) |->
                 Max(1, RoundHalfEven(quantities[i] * funds * den, total_cost))]
        ELSE quantities

\* Budget reconciliation: scale the quantities down when the cost exceeds funds.
scale_quantities(prices, den, quantities, funds) ==
    LET total_cost == Dot(prices, quantities)      \* in units of 1/den
    IN  IF total_cost > funds * den
        THEN [i \in 1..Len(quantities) |->
                 Max(1, IntDiv(quantities[i] * funds * den, total_cost))]
        ELSE quantities

\* Index of the first grid the remaining funds can pay for, 0 when none.
FirstAffordable(prices, remaining) ==
    IF \E i \in 1..Len(prices) : remaining >= prices[i]
    THEN CHOOSE i \in 1..Len(prices) :
            /\ remaining >= prices[i]
            /\ \A j \in 1..(i - 1) : remaining < prices[j]
    ELSE 0

\* The while loop that distributes the remaining funds (remaining is in
\* units of 1/den, as the prices are).
RECURSIVE distribute_remaining(_, _, _)
distribute_remaining(prices, quantities, remaining) ==
    IF remaining > SeqMin(prices)
    THEN LET i == FirstAffordable(prices, remaining)
         IN  distribute_remaining(prices,
                                  [quantities EXCEPT ![i] = @ + 1],
                                  remaining - prices[i])
    ELSE quantities

\* [(round(price, 2), int(quantity)) ...]: prices rounded to whole cents.
make_buy_plan(prices, den, quantities) ==
    [i \in 1..Len(prices) |->
        [price |-> RoundHalfEven(prices[i], den), quantity |-> quantities[i]]]

WarnSingleShare == "warning: several price levels buy only 1 share"

\* warning_message raised as soon as half of the grids buy a single share.
warning_message_from_half(buy_plan, num_grids) ==
    LET single_share_count ==
            Cardinality({i \in 1..Len(buy_plan) : buy_plan[i].quantity = 1})
    IN  IF single_share_count >= num_grids \div 2 THEN WarnSingleShare ELSE ""

\* The thin-plan warning.
warning_message(buy_plan, num_grids) ==
    LET single_share_count ==
            Cardinality({i \in 1..Len(buy_plan) : buy_plan[i].quantity = 1})
    IN  IF single_share_count > num_grids \div 2 THEN WarnSingleShare ELSE ""

PlanCost(buy_plan) ==
    SumSeq([i \in 1..Len(buy_plan) |-> buy_plan[i].price * buy_plan[i].quantity])

PlanShares(buy_plan) ==
    SumSeq([i \in 1..Len(buy_plan) |-> buy_plan[i].quantity])

---------------------------------------------------------------------------
(* BuyPlanEngine *)

Request(funds, initial_price, stop_loss_price, num_grids, allocation_method) ==
    [funds |-> funds, initial_price |-> initial_price,
     stop_loss_price |-> stop_loss_price, num_grids |-> num_grids,
     allocation_method |-> allocation_method]

NoRequest == Request(0, 0, 0, 0, 0)

\* What an engine call leaves behind: how it ended and, for a computed plan,
\* its intermediate values.
NoConfig ==
    [max_num_grids |-> HardMaxGrids, default_funds |-> 0,
     default_initial_price |-> 0, default_stop_loss_price |-> 0,
     default_num_grids |-> 0, default_allocation_method |-> 0]

LogGridsReduced == "not enough funds for all grids, grid count reduced"

\* A reported maximum-loss percentage is kept as the two numbers it is the
\* quotient of: the percentage is max_loss / divisor * 100.
NotReported == [reported |-> FALSE, max_loss |-> 0, divisor |-> 1]

\* The summary TradingLogic.calculate_buy_plan returns with a plan:
\* max_loss_percentage = (max_loss / total_cost) * 100 if total_cost > 0 else 0
summary_max_loss_percentage(buy_plan, stop_loss_price) ==
    LET total_shares == PlanShares(buy_plan)
        total_cost == PlanCost(buy_plan)
        max_loss == total_cost - total_shares * stop_loss_price
    IN  IF total_cost > 0
        THEN [reported |-> TRUE, max_loss |-> max_loss, divisor |-> total_cost]
        ELSE [reported |-> TRUE, max_loss |-> 0, divisor |-> 1]

\* The line of format_results that reports the maximum-loss percentage:
\* (max_loss / input_values['funds']) * 100
format_results_max_loss_percentage(values, buy_plan) ==
    LET total_shares == PlanShares(buy_plan)
        total_cost == PlanCost(buy_plan)
        max_loss == total_cost - values.stop_loss_price * total_shares
    IN  [reported |-> TRUE, max_loss |-> max_loss, divisor |-> values.funds]

\* What an engine call leaves behind: how it ended (status, error and the
\* returned buy_plan, warning and reserved funds), the request and the
\* configuration it was called with and, for a computed plan, its
\* intermediate values, what it logged and the maximum-loss percentage it
\* reports.
NoOutcome ==
    [op |-> "none", args |-> NoRequest, percentage |-> 0, config |-> NoConfig,
     status |-> "none", error |-> NoError,
     buy_plan |-> <<>>, warning |-> "", reserved_x100 |-> 0,
     used |-> NoRequest, max_shares |-> 0, num_grids |-> 0,
     prices |-> <<>>, den |-> 1, initial_shares |-> <<>>, logged |-> "",
     max_loss_percentage |-> NotReported]

\* The body of calculate_buy_plan after validation, for the request req as
\* validated.  equal_dollars tells the legacy treatment of method 0.
compute_plan(req, equal_dollars) ==
    LET funds == req.funds
        max_price == req.initial_price
        min_price == req.stop_loss_price
        max_shares == IntDiv(funds, min_price)
        num_grids == IF max_shares < req.num_grids THEN max_shares
                     ELSE req.num_grids
        den == Den(num_grids)
        buy_prices == linspace(max_price, min_price, num_grids)
        initial_shares ==
            IF equal_dollars /\ req.allocation_method = 0
            THEN legacy_equal_quantities(buy_prices, den, funds, num_grids)
            ELSE calculate_weights(buy_prices, req.allocation_method, max_shares)
        scaled == scale_quantities(buy_prices, den, initial_shares, funds)
        remaining_funds == funds * den - Dot(buy_prices, scaled)
        buy_quantities == distribute_remaining(buy_prices, scaled, remaining_funds)
        buy_plan == make_buy_plan(buy_prices, den, buy_quantities)
    IN  [NoOutcome EXCEPT
            !.status = "ok",
            !.buy_plan = buy_plan,
            !.warning = warning_message(buy_plan, num_grids),
            !.used = req,
            !.max_shares = max_shares,
            !.num_grids = num_grids,
            !.prices = buy_prices,
            !.den = den,
            !.initial_shares = initial_shares,
            !.logged = IF max_shares < req.num_grids THEN LogGridsReduced ELSE ""]

\* calculations.calculate_buy_plan
calculate_buy_plan(req) ==
    LET error == validate_inputs(req.funds, req.initial_price,
                                 req.stop_loss_price, req.num_grids,
                                 req.allocation_method)
        outcome == IF error # NoError
                   THEN [NoOutcome EXCEPT !.status = "raised", !.error = error]
                   ELSE compute_plan(req, TRUE)
    IN  [outcome EXCEPT !.op = "calculate_buy_plan", !.args = req]

\* TradingLogic.ensure_default_values: every falsy value (0) is replaced by
\* the configured default.
ensure_default_values(trading_config, values) ==
    [funds |-> IF values.funds = 0 THEN trading_config.default_funds
               ELSE values.funds,
     initial_price |-> IF values.initial_price = 0
                       THEN trading_config.default_initial_price
                       ELSE values.initial_price,
     stop_loss_price |-> IF values.stop_loss_price = 0
                         THEN trading_config.default_stop_loss_price
                         ELSE values.stop_loss_price,
     num_grids |-> IF values.num_grids = 0 THEN trading_config.default_num_grids
                   ELSE values.num_grids,
     allocation_method |-> IF values.allocation_method = 0
                           THEN trading_config.default_allocation_method
                           ELSE values.allocation_method]

\* TradingLogic.calculate_buy_plan under configuration cfg
TradingLogic_calculate_buy_plan(cfg, req) ==
    LET max_num_grids == cfg.max_num_grids
        values == ensure_default_values(cfg, req)
        error == validate_inputs(values.funds, values.initial_price,
                                 values.stop_loss_price, values.num_grids,
                                 values.allocation_method)
        outcome ==
            IF req.num_grids <= 0 \/ req.num_grids > max_num_grids
            THEN [NoOutcome EXCEPT !.status = "raised", !.error = ErrGridRange]
            ELSE IF error # NoError
            THEN [NoOutcome EXCEPT !.status = "returned_error",
                                   !.error = error, !.warning = error,
                                   !.used = values]
            ELSE LET plan == compute_plan(values, FALSE)
                 IN  [plan EXCEPT !.max_loss_percentage =
                         summary_max_loss_percentage(plan.buy_plan,
                                                     values.stop_loss_price)]
    IN  [outcome EXCEPT !.op = "TradingLogic.calculate_buy_plan", !.args = req,
                        !.config = cfg]

\* available_funds = total_funds - total_funds * (reserve_percentage / 100)
available_funds(total_funds, reserve_percentage) ==
    total_funds - (total_funds * reserve_percentage) \div 100

\* input_values['funds'] = available_funds
with_available_funds(values, reserve_percentage) ==
    [values EXCEPT !.funds = available_funds(values.funds, reserve_percentage)]

\* calculations.calculate_with_reserve: what it returns for the dict values
\* (reserved_x100 is 100 times the reserved funds); the report is made by
\* format_results from the updated dict.
calculate_with_reserve(values, reserve_percentage) ==
    LET updated == with_available_funds(values, reserve_percentage)
        outcome == calculate_buy_plan(updated)
    IN  [outcome EXCEPT
            !.op = "calculate_with_reserve",
            !.args = values,
            !.percentage = reserve_percentage,
            !.reserved_x100 = values.funds * reserve_percentage,
            !.max_loss_percentage =
                IF outcome.status = "ok"
                THEN format_results_max_loss_percentage(updated, outcome.buy_plan)
                ELSE NotReported]

\* TradingLogic.calculate_with_reserve planning with the total funds.
TradingLogic_calculate_with_reserve_total(cfg, values, reserve_percentage) ==
    LET outcome ==
            IF values.initial_price <= 0
            THEN [NoOutcome EXCEPT !.status = "raised", !.error = ErrCurrentPrice]
            ELSE TradingLogic_calculate_buy_plan(cfg, values)
    IN  [outcome EXCEPT
            !.op = "TradingLogic.calculate_with_reserve",
            !.args = values,
            !.config = cfg,
            !.percentage = reserve_percentage,
            !.reserved_x100 = values.funds * reserve_percentage]

\* TradingLogic.calculate_with_reserve: what it returns for the dict values
TradingLogic_calculate_with_reserve(cfg, values, reserve_percentage) ==
    LET updated == with_available_funds(values, reserve_percentage)
        outcome ==
            IF updated.initial_price <= 0
            THEN [NoOutcome EXCEPT !.status = "raised", !.error = ErrCurrentPrice]
            ELSE TradingLogic_calculate_buy_plan(cfg, updated)
    IN  [outcome EXCEPT
            !.op = "TradingLogic.calculate_with_reserve",
            !.args = values,
            !.config = cfg,
            !.percentage = reserve_percentage,
            !.reserved_x100 = values.funds * reserve_percentage]

---------------------------------------------------------------------------
(* InstructionParser *)

\* An instruction is a sequence of characters.  The two-character words the
\* patterns look for (the stop-loss and the resistance marker) count as one
\* character each.  A parsed number is an integer in units of 1 / PriceUnit;
\* the unit is a multiple of 20, so that 0.95 times a parsed number is exact.
UpperCaseLetters == {"A"}
LowerCaseLetters == {"a"}
Digits == {"0", "1", "2"}
DecimalPoint == "."
RangeMarkers == {"-", "to", "between", "near"}     \* (?:-|到|之间|附近)
WhiteSpace == {" "}
StopLossMarker == "stop-loss"                       \* 止损
ResistanceMarker == "resistance"                    \* 压力

PriceUnit == 20 * 10 ^ (MaxInstructionLen - 2)

\* Python's None, for a number and for a group of a match.
None == -1
NoGroup == <<>>

\* instruction.upper()
str_upper(instruction) ==
    [i \in 1..Len(instruction) |->
        IF instruction[i] \in LowerCaseLetters THEN "A" ELSE instruction[i]]

\* Index of the last character of the run of characters of class that
\* starts at index i (s[i] is in class).
RunEnd(s, i, class) ==
    CHOOSE j \in i..Len(s) :
        /\ \A k \in i..j : s[k] \in class
        /\ j = Len(s) \/ s[j + 1] \notin class

\* Where \d+(\.\d+)? stops when its \d+ stopped at index j.
FractionEnd(s, j) ==
    IF j + 2 <= Len(s) /\ s[j + 1] = DecimalPoint /\ s[j + 2] \in Digits
    THEN RunEnd(s, j + 2, Digits)
    ELSE j

\* Index of the last character \d+(\.\d+)? matches from index i (s[i] is a
\* digit).
NumberEnd(s, i) == FractionEnd(s, RunEnd(s, i, Digits))

\* Smallest index of s whose character is in class, 0 when there is none.
FirstIn(s, class) ==
    IF \E i \in 1..Len(s) : s[i] \in class
    THEN CHOOSE i \in 1..Len(s) :
            s[i] \in class /\ \A j \in 1..(i - 1) : s[j] \notin class
    ELSE 0

\* Smallest index of s where marker stands right before a digit, 0 when
\* there is none.
FirstMarked(s, marker) ==
    IF \E i \in 1..(Len(s) - 1) : s[i] = marker /\ s[i + 1] \in Digits
    THEN CHOOSE i \in 1..(Len(s) - 1) :
            /\ s[i] = marker /\ s[i + 1] \in Digits
            /\ \A j \in 1..(i - 1) : ~(s[j] = marker /\ s[j + 1] \in Digits)
    ELSE 0

\* (?:-|到|之间|附近)? at index i: the index after it.
SkipMarker(s, i) ==
    IF i <= Len(s) /\ s[i] \in RangeMarkers THEN i + 1 ELSE i

\* \s* at index i: the index after it.
SkipSpace(s, i) ==
    IF i <= Len(s) /\ s[i] \in WhiteSpace
    THEN RunEnd(s, i, WhiteSpace) + 1 ELSE i

\* (?:(\d+(\.\d+)?))? at index i: the group, NoGroup when it matches nothing.
NumberAt(s, i) ==
    IF i <= Len(s) /\ s[i] \in Digits
    THEN SubSeq(s, i, NumberEnd(s, i)) ELSE NoGroup

\* re.search(r'(?:日内)?([A-Z]+)', instruction): group(1), NoGroup when the
\* search fails.  The optional prefix changes where a match starts, never
\* its group.
search_symbol(s) ==
    IF FirstIn(s, UpperCaseLetters) = 0 THEN NoGroup
    ELSE SubSeq(s, FirstIn(s, UpperCaseLetters),
                RunEnd(s, FirstIn(s, UpperCaseLetters), UpperCaseLetters))

\* The groups of the price pattern matched from index first, whose first
\* number ends at index end1.
price_groups(s, first, end1) ==
    [matched |-> TRUE,
     group1 |-> SubSeq(s, first, end1),
     group3 |-> NumberAt(s, SkipSpace(s, SkipMarker(s, end1 + 1)))]

\* re.search of the price pattern
\* (?:区间|现价到?|)(\d+(\.\d+)?)(?:-|到|之间|附近)?\s*(?:(\d+(\.\d+)?))?
\* group(1) and group(3).  Every part after group 1 is optional and greedy,
\* so the leftmost number is group 1; the optional prefix changes where a
\* match starts, never its groups.
search_price_range(s) ==
    IF FirstIn(s, Digits) = 0
    THEN [matched |-> FALSE, group1 |-> NoGroup, group3 |-> NoGroup]
    ELSE price_groups(s, FirstIn(s, Digits), NumberEnd(s, FirstIn(s, Digits)))

\* re.search(marker + r'(\d+(\.\d+)?)', instruction): group(1), NoGroup when
\* the search fails.
search_marked_number(s, marker) ==
    IF FirstMarked(s, marker) = 0 THEN NoGroup
    ELSE NumberAt(s, FirstMarked(s, marker) + 1)

DigitValue(c) == CASE c = "0" -> 0 [] c = "1" -> 1 [] c = "2" -> 2

\* int() of a run of digits
RECURSIVE DigitsValue(_)
DigitsValue(digits) ==
    IF digits = <<>> THEN 0
    ELSE 10 * DigitsValue(SubSeq(digits, 1, Len(digits) - 1))
           + DigitValue(digits[Len(digits)])

\* The value of the digits after the decimal point, in units of 1 / PriceUnit.
FractionValue(fraction) ==
    (DigitsValue(fraction) * PriceUnit) \div (10 ^ Len(fraction))

\* float(text) of a text \d+(\.\d+)? matches, in units of 1 / PriceUnit.
float(text) ==
    IF FirstIn(text, {DecimalPoint}) = 0 THEN DigitsValue(text) * PriceUnit
    ELSE DigitsValue(SubSeq(text, 1, FirstIn(text, {DecimalPoint}) - 1)) * PriceUnit
           + FractionValue(SubSeq(text, FirstIn(text, {DecimalPoint}) + 1,
                                  Len(text)))

ErrTypeError == "TypeError: '>=' not supported between float and NoneType"
ErrPriceRange == "invalid price range: start price above end price"
ErrInstruction == "invalid instruction: symbol or price missing"
PriceWarning == "instruction price differs from the actual price by more than 10%"

\* What a parse leaves behind: how it ended and the dict it returned
\* (price_range is <<>> for None, price_warning "" for a dict without the key).
NoParse ==
    [op |-> "none", status |-> "none", error |-> NoError,
     symbol |-> NoGroup, current_price |-> None, stop_loss |-> None,
     price_range |-> <<>>, resistance |-> None, price_warning |-> ""]

\* lower_price, higher_price and current_price with current_price taken from
\* the first number.
prices_of_current_low(lower_price, group3) ==
    [lower_price |-> lower_price,
     higher_price |-> IF group3 # NoGroup THEN float(group3) ELSE lower_price,
     current_price |-> lower_price]

\* lower_price, higher_price and current_price = higher_price of a match
\* whose first number is lower_price.
prices_of(lower_price, group3) ==
    [lower_price |-> lower_price,
     higher_price |-> IF group3 # NoGroup THEN float(group3) ELSE lower_price,
     current_price |-> IF group3 # NoGroup THEN float(group3) ELSE lower_price]

NoPrices == [lower_price |-> None, higher_price |-> None, current_price |-> None]

\* The prices of what the price pattern matched.
match_prices(price_range) ==
    IF price_range.matched
    THEN prices_of(float(price_range.group1), price_range.group3)
    ELSE NoPrices

\* current_price * 0.95: a price is a multiple of 20 units, so that
\* current_price / 20 is exact.
ninety_five_percent(current_price) == current_price - current_price \div 20

\* The stop-loss when the instruction names one, stop_loss.
explicit_stop_loss(stop_loss, current_price) ==
    IF stop_loss >= current_price THEN ninety_five_percent(current_price)
    ELSE stop_loss

\* The stop-loss when the instruction names none:
\* lower_price if lower_price else
\*     (current_price * 0.95 if current_price else None)
default_stop_loss(lower_price, current_price) ==
    IF lower_price # None /\ lower_price # 0 THEN lower_price
    ELSE IF current_price # None /\ current_price # 0
         THEN ninety_five_percent(current_price)
    ELSE None

\* The stop-loss of the instruction.
instruction_stop_loss(stop_loss_match, prices) ==
    IF stop_loss_match # NoGroup
    THEN explicit_stop_loss(float(stop_loss_match), prices.current_price)
    ELSE default_stop_loss(prices.lower_price, prices.current_price)

\* price_warning without the tolerance: any difference is reported.
price_warning_any_difference(current_api_price, current_price) ==
    IF current_api_price # None /\ current_api_price # 0
          /\ current_price # None /\ current_price # 0
          /\ current_api_price # current_price
    THEN PriceWarning ELSE ""

\* The price_warning entry: abs(current_api_price - current_price) /
\* current_price > 0.1, when both prices are truthy.  For whole numbers
\* d / c > 1 / 10 says the same as d > c \div 10.
price_warning(current_api_price, current_price) ==
    IF current_api_price # None /\ current_api_price # 0
          /\ current_price # None /\ current_price # 0
          /\ \/ current_api_price - current_price > current_price \div 10
             \/ current_price - current_api_price > current_price \div 10
    THEN PriceWarning ELSE ""

\* The dict a parse returns.
parse_result(op, symbol, prices, stop_loss, resistance, warning) ==
    [op |-> op, status |-> "ok", error |-> NoError,
     symbol |-> symbol,
     current_price |-> prices.current_price,
     stop_loss |-> stop_loss,
     price_range |-> IF prices.lower_price # None
                     THEN <<prices.lower_price, prices.higher_price>>
                     ELSE <<>>,
     resistance |-> resistance,
     price_warning |-> warning]

\* "resistance": resistance if resistance else None
legacy_resistance(resistance_match) ==
    IF resistance_match # NoGroup /\ float(resistance_match) # 0
    THEN float(resistance_match) ELSE None

\* float(resistance_match.group(1)) if resistance_match else None
TradingLogic_resistance(resistance_match) ==
    IF resistance_match # NoGroup THEN float(resistance_match) ELSE None

\* calculations.parse_trading_instruction, from the upper-cased text s, the
\* prices and the stop-loss match found in it.
legacy_parse(s, prices, stop_loss_match, current_api_price) ==
    IF stop_loss_match # NoGroup /\ prices.current_price = None
    THEN [NoParse EXCEPT !.op = "parse_trading_instruction",
                         !.status = "raised", !.error = ErrTypeError]
    ELSE parse_result("parse_trading_instruction",
                      search_symbol(s), prices,
                      instruction_stop_loss(stop_loss_match, prices),
                      legacy_resistance(
                          search_marked_number(s, ResistanceMarker)),
                      price_warning(current_api_price, prices.current_price))

\* calculations.parse_trading_instruction
parse_trading_instruction(instruction, current_api_price) ==
    legacy_parse(str_upper(instruction),
                 match_prices(search_price_range(str_upper(instruction))),
                 search_marked_number(str_upper(instruction), StopLossMarker),
                 current_api_price)

\* The exception TradingLogic.parse_trading_instruction raises with error.
TradingLogic_parse_raised(error) ==
    [NoParse EXCEPT !.op = "TradingLogic.parse_trading_instruction",
                    !.status = "raised", !.error = error]

\* TradingLogic.parse_trading_instruction, from the upper-cased text s, the
\* prices and the stop-loss match found in it.
TradingLogic_parse(s, prices, stop_loss_match, current_api_price) ==
    IF prices.lower_price # None /\ prices.lower_price > prices.higher_price
    THEN TradingLogic_parse_raised(ErrPriceRange)
    ELSE IF stop_loss_match # NoGroup /\ prices.current_price = None
    THEN TradingLogic_parse_raised(ErrTypeError)
    ELSE IF search_symbol(s) = NoGroup \/ prices.current_price = None
    THEN TradingLogic_parse_raised(ErrInstruction)
    ELSE parse_result("TradingLogic.parse_trading_instruction",
                      search_symbol(s), prices,
                      instruction_stop_loss(stop_loss_match, prices),
                      TradingLogic_resistance(
                          search_marked_number(s, ResistanceMarker)),
                      price_warning(current_api_price, prices.current_price))

\* TradingLogic.parse_trading_instruction
TradingLogic_parse_trading_instruction(instruction, current_api_price) ==
    TradingLogic_parse(
        str_upper(instruction),
        match_prices(search_price_range(str_upper(instruction))),
        search_marked_number(str_upper(instruction), StopLossMarker),
        current_api_price)

---------------------------------------------------------------------------
(* State machine: a caller holding one request dict and calling the engine *)

\* Legacy GUI (grid_buying_plan_gui.py): bounds of its model and the
\* program's time limits, in seconds.
MaxRuns == 2                \* run_calculation calls that start a calculation
TickSeconds == 30           \* the clock advances by this much
MaxTime == 90               \* and stops here
TimerInterval == 30         \* threading.Timer(30.0, handle_timeout)
CalculationLimit == 30      \* "if end_time - start_time > 30"
StatusTimeout == 60         \* "if time.time() - calculation_start_time > 60"

Runs == 1..MaxRuns

\* calculation_timer = None
NoTimer == 0

\* The module state of grid_buying_plan_gui.py once the window is built and
\* before any calculation: the three globals, the widgets the handlers
\* touch, the threads and timers (none yet) and Tk's pending callbacks.
InitialGui ==
    [calculation_in_progress |-> FALSE,
     calculation_timer |-> NoTimer,
     calculation_complete |-> FALSE,
     calculation_start_time |-> 0,
     now |-> 0,
     run |-> 0,
     timer |-> [r \in Runs |-> "unstarted"],
     worker |-> [r \in Runs |-> "unstarted"],
     start_time |-> [r \in Runs |-> 0],
     after_queue |-> <<>>,
     status_checks |-> 0,
     buttons |-> "normal",
     result_text |-> [text |-> "", run |-> 0],
     messagebox |-> "",
     timed_out |-> {}]

\* The locals of a calculate_buy_plan call that is not being stepped.
NoLoop ==
    [pc |-> "none", funds |-> <<0, 1>>, max_price |-> <<0, 1>>,
     min_price |-> <<0, 1>>, num_grids |-> 0, allocation_method |-> 0,
     max_shares |-> 0, buy_prices |-> <<>>, initial_shares |-> <<>>,
     buy_quantities |-> <<>>, remaining_funds |-> <<0, 1>>, iterations |-> 0]

Requests ==
    {Request(f, ip, sl, n, m) :
        f \in FundsChoices, ip \in InitialPriceChoices, sl \in StopLossChoices,
        n \in NumGridsChoices, m \in MethodChoices}

Configs ==
    [max_num_grids : MaxNumGridsChoices,
     default_funds : {2500},
     default_initial_price : {1000},
     default_stop_loss_price : {900},
     default_num_grids : {3},
     default_allocation_method : DefaultMethodChoices]

IsBuyPlanCall(outcome) ==
    outcome.op \in {"calculate_buy_plan", "TradingLogic.calculate_buy_plan"}

\* The outcome of the call just before the one being made, when that was a
\* calculate_buy_plan call.
Remember == IF IsBuyPlanCall(result) THEN result ELSE NoOutcome

Init ==
    /\ input_values \in Requests
    /\ config \in Configs
    /\ result = NoOutcome
    /\ prev = NoOutcome
    /\ instruction_text = <<>>
    /\ external_price = None
    /\ parsed = NoParse
    /\ loop = NoLoop
    /\ gui = InitialGui

\* validate_inputs(**input_values)
ValidateInputs ==
    /\ result' = [NoOutcome EXCEPT
                    !.op = "validate_inputs",
                    !.args = input_values,
                    !.status = IF validate_inputs(input_values.funds,
                                     input_values.initial_price,
                                     input_values.stop_loss_price,
                                     input_values.num_grids,
                                     input_values.allocation_method) = NoError
                                THEN "ok" ELSE "raised",
                    !.error = validate_inputs(input_values.funds,
                                     input_values.initial_price,
                                     input_values.stop_loss_price,
                                     input_values.num_grids,
                                     input_values.allocation_method)]
    /\ prev' = Remember
    /\ UNCHANGED <<input_values, config>>
    /\ UNCHANGED <<parser_vars, loop, gui>>

\* calculate_buy_plan(**input_values)
CalculateBuyPlan ==
    /\ result' = calculate_buy_plan(input_values)
    /\ prev' = Remember
    /\ UNCHANGED <<input_values, config>>
    /\ UNCHANGED <<parser_vars, loop, gui>>

\* trading_logic.calculate_buy_plan(**input_values)
TradingLogicCalculateBuyPlan ==
    /\ result' = TradingLogic_calculate_buy_plan(config, input_values)
    /\ prev' = Remember
    /\ UNCHANGED <<input_values, config>>
    /\ UNCHANGED <<parser_vars, loop, gui>>

\* calculate_with_reserve(input_values, reserve_percentage)
CalculateWithReserve ==
    \E reserve_percentage \in ReservePercentages :
        /\ (input_values.funds * reserve_percentage) % 100 = 0
        /\ input_values' = with_available_funds(input_values, reserve_percentage)
        /\ result' = calculate_with_reserve(input_values, reserve_percentage)
        /\ prev' = Remember
        /\ UNCHANGED config
        /\ UNCHANGED <<parser_vars, loop, gui>>

\* trading_logic.calculate_with_reserve(input_values, reserve_percentage)
TradingLogicCalculateWithReserve ==
    \E reserve_percentage \in ReservePercentages :
        /\ (input_values.funds * reserve_percentage) % 100 = 0
        /\ input_values' = with_available_funds(input_values, reserve_percentage)
        /\ result' = TradingLogic_calculate_with_reserve(
                         config, input_values, reserve_percentage)
        /\ prev' = Remember
        /\ UNCHANGED config
        /\ UNCHANGED <<parser_vars, loop, gui>>

\* config_manager.set_config('General.max_num_grids', v)
SetMaxNumGrids ==
    \E v \in MaxNumGridsChoices :
        /\ v # config.max_num_grids
        /\ config' = [config EXCEPT !.max_num_grids = v]
        /\ UNCHANGED <<input_values, result, prev>>
        /\ UNCHANGED <<parser_vars, loop, gui>>

Next ==
    \/ ValidateInputs
    \/ CalculateBuyPlan
    \/ TradingLogicCalculateBuyPlan
    \/ CalculateWithReserve
    \/ TradingLogicCalculateWithReserve
    \/ SetMaxNumGrids

Spec == Init /\ [][Next]_vars

---------------------------------------------------------------------------
(* State machine: a caller holding one instruction and parsing it *)

Alphabet ==
    UpperCaseLetters \cup LowerCaseLetters \cup Digits
        \cup {DecimalPoint, "-", " ", StopLossMarker, ResistanceMarker}

\* Every text of at most MaxInstructionLen characters.
ShortInstructions ==
    UNION {[1..n -> Alphabet] : n \in 0..MaxInstructionLen}

\* Longer instructions: a symbol, a price or a price range, then possibly a
\* stop-loss and a resistance.
SamplePrices ==
    {<<"2">>, <<"1", "-", "2">>, <<"2", "-", "1">>, <<"0", "-", "2">>,
     <<"1", ".", "2", "-", "2">>}
SampleStopLosses ==
    {<<>>, <<StopLossMarker, "1">>, <<StopLossMarker, "2">>,
     <<StopLossMarker, "1", ".", "1">>}
SampleResistances == {<<>>, <<ResistanceMarker, "2", "1">>}
LongInstructions ==
    {<<"A", " ">> \o price \o <<" ">> \o stop_loss \o resistance :
        price \in SamplePrices, stop_loss \in SampleStopLosses,
        resistance \in SampleResistances}

Instructions == ShortInstructions \cup LongInstructions

\* No external price, or a positive one.
ApiPrices == {None, 1 * PriceUnit, 11 * PriceUnit}

ParserInit ==
    /\ instruction_text \in Instructions
    /\ external_price \in ApiPrices
    /\ parsed = NoParse
    /\ loop = NoLoop
    /\ gui = InitialGui
    /\ input_values = NoRequest
    /\ config = NoConfig
    /\ result = NoOutcome
    /\ prev = NoOutcome

\* parse_trading_instruction(instruction_text, external_price)
ParseTradingInstruction ==
    /\ parsed' = parse_trading_instruction(instruction_text, external_price)
    /\ UNCHANGED <<instruction_text, external_price>>
    /\ UNCHANGED <<engine_vars, loop, gui>>

\* trading_logic.parse_trading_instruction(instruction_text, external_price)
TradingLogicParseTradingInstruction ==
    /\ parsed' = TradingLogic_parse_trading_instruction(instruction_text,
                                                        external_price)
    /\ UNCHANGED <<instruction_text, external_price>>
    /\ UNCHANGED <<engine_vars, loop, gui>>

ParserNext ==
    \/ ParseTradingInstruction
    \/ TradingLogicParseTradingInstruction

ParserSpec == ParserInit /\ [][ParserNext]_vars

---------------------------------------------------------------------------
(* LeftoverLoop *)

\* remaining_funds, the prices and every intermediate amount of
\* calculate_buy_plan are Python floats: the result of each operation is the
\* exact result rounded to the nearest binary number with a mantissa of
\* MantissaBits bits, ties to even.  A double has 53 bits; the model keeps
\* the rounding rule and shortens the mantissa as it shortens the amounts.
\* A float is kept as the reduced fraction <<numerator, denominator>>.
MantissaBits == 4

\* The e with 2^(MantissaBits-1) <= (num / den) / 2^e < 2^MantissaBits,
\* searched from e upwards or downwards (num / den > 0).
RECURSIVE float_exponent(_, _, _)
float_exponent(num, den, e) ==
    IF e >= 0 /\ num >= 2^MantissaBits * 2^e * den
    THEN float_exponent(num, den, e + 1)
    ELSE IF e <= 0 /\ num * 2^(-e) < 2^(MantissaBits - 1) * den
    THEN float_exponent(num, den, e - 1)
    ELSE e

\* The mantissa of num / den at exponent e: (num / den) / 2^e rounded to an
\* integer, ties to even.
float_mantissa(num, den, e) ==
    IF e >= 0 THEN RoundHalfEven(num, den * 2^e)
    ELSE RoundHalfEven(num * 2^(-e), den)

\* The float m * 2^e.
float_value(m, e) ==
    IF e >= 0 THEN <<m * 2^e, 1>>
    ELSE <<m \div GCD(m, 2^(-e)), 2^(-e) \div GCD(m, 2^(-e))>>

float_round_at(num, den, e) == float_value(float_mantissa(num, den, e), e)

float_negative(x) == <<0 - x[1], x[2]>>

\* The float nearest to the fraction num / den (den > 0).
float_round(num, den) ==
    IF num = 0 THEN <<0, 1>>
    ELSE IF num > 0 THEN float_round_at(num, den, float_exponent(num, den, 0))
    ELSE float_negative(float_round_at(0 - num, den,
                                       float_exponent(0 - num, den, 0)))

\* float(k) of a Python int
float_of_int(k) == float_round(k, 1)
\* int(x) of a non-negative float
int_of_float(x) == x[1] \div x[2]

float_add(x, y) == float_round(x[1] * y[2] + y[1] * x[2], x[2] * y[2])
float_sub(x, y) == float_round(x[1] * y[2] - y[1] * x[2], x[2] * y[2])
float_mul(x, y) == float_round(x[1] * y[1], x[2] * y[2])
float_truediv(x, y) == float_round(x[1] * y[2], x[2] * y[1])
float_lt(x, y) == x[1] * y[2] < y[1] * x[2]
float_le(x, y) == x[1] * y[2] <= y[1] * x[2]

\* np.linspace(start, stop, num) on floats: step = (stop - start) / (num - 1),
\* y[i] = i * step + start, and the last element is set to stop.
float_linspace(start, stop, num) ==
    [i \in 1..num |->
        IF num > 1 /\ i = num THEN stop
        ELSE IF num = 1 THEN start
        ELSE float_add(float_mul(float_of_int(i - 1),
                                 float_truediv(float_sub(stop, start),
                                               float_of_int(num - 1))),
                       start)]

\* min(buy_prices)
RECURSIVE float_min(_)
float_min(xs) ==
    IF Len(xs) = 1 THEN xs[1]
    ELSE IF float_lt(float_min(Tail(xs)), Head(xs)) THEN float_min(Tail(xs))
    ELSE Head(xs)

\* sum(price * quantity for price, quantity in zip(prices, quantities)),
\* added from left to right; k is the number of terms taken.
RECURSIVE float_cost(_, _, _)
float_cost(prices, quantities, k) ==
    IF k = 0 THEN <<0, 1>>
    ELSE float_add(float_cost(prices, quantities, k - 1),
                   float_mul(prices[k], float_of_int(quantities[k])))

\* [max(1, int(target_amount_per_grid / price)) for price in buy_prices]
float_equal_quantities(prices, target_amount_per_grid) ==
    [i \in 1..Len(prices) |->
        Max(1, int_of_float(float_truediv(target_amount_per_grid, prices[i])))]

\* [max(1, int(quantity * scale_factor)) for quantity in buy_quantities]
float_scaled(quantities, scale_factor) ==
    [i \in 1..Len(quantities) |->
        Max(1, int_of_float(float_mul(float_of_int(quantities[i]),
                                      scale_factor)))]

\* if total_cost > funds: scale the quantities by funds / total_cost
float_scale_quantities(prices, quantities, funds, total_cost) ==
    IF float_lt(funds, total_cost)
    THEN float_scaled(quantities, float_truediv(funds, total_cost))
    ELSE quantities

\* calculate_weights(prices, method, max_shares) for the methods whose
\* weights are whole numbers: [1] * n for method 0 and 1..n for method 2,
\* max(1, int(max_shares * (weight / total_weight))) for each weight; a
\* single price gets max_shares whatever the method.
float_weight_total(num_prices, method) ==
    IF method = 2 THEN (num_prices * (num_prices + 1)) \div 2 ELSE num_prices

float_weight(i, method) == IF method = 2 THEN i ELSE 1

float_calculate_weights(prices, method, max_shares) ==
    IF Len(prices) = 1 THEN <<max_shares>>
    ELSE [i \in 1..Len(prices) |->
            Max(1, int_of_float(
                       float_mul(float_of_int(max_shares),
                                 float_round(float_weight(i, method),
                                             float_weight_total(Len(prices),
                                                                method)))))]

\* buy_quantities before budget reconciliation: the equal-amount branch for
\* method 0, calculate_weights otherwise.
loop_initial_shares(funds, buy_prices, method, max_shares) ==
    IF method = 0
    THEN float_equal_quantities(
             buy_prices, float_truediv(funds, float_of_int(Len(buy_prices))))
    ELSE float_calculate_weights(buy_prices, method, max_shares)

\* buy_quantities after budget reconciliation.
loop_quantities(funds, buy_prices, initial_shares) ==
    float_scale_quantities(buy_prices, initial_shares, funds,
                           float_cost(buy_prices, initial_shares,
                                      Len(buy_prices)))

\* The locals of calculate_buy_plan when it reaches its while loop.
loop_entry(entry, buy_prices, initial_shares, buy_quantities) ==
    [entry EXCEPT
        !.pc = "while",
        !.buy_prices = buy_prices,
        !.initial_shares = initial_shares,
        !.buy_quantities = buy_quantities,
        !.remaining_funds =
            float_sub(entry.funds,
                      float_cost(buy_prices, buy_quantities, Len(buy_prices)))]

\* max_shares = int(funds / min_price)
loop_max_shares(funds, min_price) == int_of_float(float_truediv(funds, min_price))

\* num_grids after "if max_shares < num_grids: num_grids = max_shares"
loop_num_grids(funds, min_price, num_grids) ==
    Min(num_grids, loop_max_shares(funds, min_price))

\* first_affordable scanning the grids from the cheapest one.
first_affordable_from_last(buy_prices, remaining_funds) ==
    IF \E i \in 1..Len(buy_prices) : float_le(buy_prices[i], remaining_funds)
    THEN CHOOSE i \in 1..Len(buy_prices) :
            /\ float_le(buy_prices[i], remaining_funds)
            /\ \A j \in (i + 1)..Len(buy_prices) :
                  ~float_le(buy_prices[j], remaining_funds)
    ELSE 0

\* Index of the first grid "for i in range(num_grids)" finds with
\* remaining_funds >= buy_prices[i], 0 when it finds none.
first_affordable(buy_prices, remaining_funds) ==
    IF \E i \in 1..Len(buy_prices) : float_le(buy_prices[i], remaining_funds)
    THEN CHOOSE i \in 1..Len(buy_prices) :
            /\ float_le(buy_prices[i], remaining_funds)
            /\ \A j \in 1..(i - 1) : ~float_le(buy_prices[j], remaining_funds)
    ELSE 0

\* One pass of the for loop: the grid i gets one more share and
\* remaining_funds -= buy_prices[i]; nothing changes when i = 0.
add_share(locals, i) ==
    IF i = 0 THEN locals
    ELSE [locals EXCEPT
            !.buy_quantities[i] = @ + 1,
            !.remaining_funds = float_sub(@, locals.buy_prices[i])]

\* while remaining_funds > min(buy_prices)
loop_condition(locals) ==
    float_lt(float_min(locals.buy_prices), locals.remaining_funds)

\* Requests of the step-by-step run: whole amounts that are floats of
\* MantissaBits bits, accepted by validate_inputs.  Method 1 is left out:
\* np.exp is not evaluated in rounded arithmetic.
MaxIterations == 30
LoopFundsChoices == {9, 20, 160, 832}
LoopMethodChoices == {0, 2}
LoopInitialPriceChoices == {2, 3}
LoopStopLossChoices == {1, 2}
LoopNumGridsChoices == {1, 2, 3}

LoopRequests ==
    {[NoLoop EXCEPT !.pc = "called", !.funds = <<f, 1>>,
                    !.max_price = <<hi, 1>>, !.min_price = <<lo, 1>>,
                    !.num_grids = n, !.allocation_method = m] :
        f \in LoopFundsChoices, hi \in LoopInitialPriceChoices,
        lo \in LoopStopLossChoices, n \in LoopNumGridsChoices,
        m \in LoopMethodChoices}

LoopInit ==
    /\ loop \in {r \in LoopRequests :
                    validate_inputs(r.funds[1], r.max_price[1], r.min_price[1],
                                    r.num_grids, r.allocation_method)
                        = NoError}
    /\ input_values = NoRequest
    /\ config = NoConfig
    /\ result = NoOutcome
    /\ prev = NoOutcome
    /\ instruction_text = <<>>
    /\ external_price = None
    /\ parsed = NoParse
    /\ gui = InitialGui

\* The locals at the while loop, from buy_prices and the initial shares.
loop_allocated(entry, buy_prices, initial_shares) ==
    loop_entry(entry, buy_prices, initial_shares,
               loop_quantities(entry.funds, buy_prices, initial_shares))

\* The locals at the while loop, from buy_prices.
loop_priced(entry, buy_prices) ==
    loop_allocated(entry, buy_prices,
                   loop_initial_shares(entry.funds, buy_prices,
                                       entry.allocation_method,
                                       entry.max_shares))

\* calculations.calculate_buy_plan from its entry to the while loop.
AllocateQuantities ==
    /\ loop.pc = "called"
    /\ loop' =
         loop_priced(
            [loop EXCEPT
                !.max_shares = loop_max_shares(loop.funds, loop.min_price),
                !.num_grids = loop_num_grids(loop.funds, loop.min_price, @)],
            float_linspace(loop.max_price, loop.min_price,
                           loop_num_grids(loop.funds, loop.min_price,
                                          loop.num_grids)))
    /\ UNCHANGED <<engine_vars, parser_vars, gui>>

\* One iteration of the while loop.
DistributeOneShare ==
    /\ loop.pc = "while"
    /\ loop_condition(loop)
    /\ loop.iterations < MaxIterations
    /\ loop' = add_share([loop EXCEPT !.iterations = @ + 1],
                         first_affordable(loop.buy_prices,
                                          loop.remaining_funds))
    /\ UNCHANGED <<engine_vars, parser_vars, gui>>

\* The while condition is false: the loop is left.
ExitLoop ==
    /\ loop.pc = "while"
    /\ ~loop_condition(loop)
    /\ loop' = [loop EXCEPT !.pc = "done"]
    /\ UNCHANGED <<engine_vars, parser_vars, gui>>

LoopNext ==
    \/ AllocateQuantities
    \/ DistributeOneShare
    \/ ExitLoop

\* The interpreter keeps executing the call: a step that can be taken is taken.
LoopSpec == LoopInit /\ [][LoopNext]_vars /\ WF_vars(LoopNext)

---------------------------------------------------------------------------
(* LegacyGui: the calculation handlers of grid_buying_plan_gui.py          *)
(*                                                                         *)
(* Three kinds of thread touch the module's globals: Tk's main loop, which *)
(* runs run_calculation and every callback given to root.after; one worker *)
(* thread per calculation, running calculate; one threading.Timer per      *)
(* calculation, running handle_timeout.  A handler of the main loop is one *)
(* step; a worker is one step per access to shared state.  Callbacks given *)
(* to root.after(0, ...) run in the order they were given; the callback of *)
(* root.after(100, check_calculation_status) runs at any later moment.     *)
(* gui.run numbers the calculations started; a worker, a timer and a       *)
(* callback carry the number of the calculation that created them.         *)
(* gui.timed_out holds the calculations that were announced as timed out.  *)

\* The texts of the result area and of the error dialogs, shortened.
PleaseWait == "please wait"                     \* line 249
TimeoutMessage == "timed out"                   \* line 300
PlanText == "plan"                              \* lines 315-360
ErrorDialog == "calculation error"              \* line 231
TimeoutDialog == "calculation timed out"        \* line 271

enable_buttons(g) == [g EXCEPT !.buttons = "normal"]

disable_buttons(g) == [g EXCEPT !.buttons = "disabled"]

\* root.after(0, callback), the callback created by calculation run.
after(g, callback, run) ==
    [g EXCEPT !.after_queue = Append(@, [callback |-> callback, run |-> run])]

\* "if calculation_timer: calculation_timer.cancel()": a timer that has not
\* fired yet never will; one that has fired is not changed.
cancel_timer(g) ==
    IF g.calculation_timer # NoTimer /\ g.timer[g.calculation_timer] = "started"
    THEN [g EXCEPT !.timer[g.calculation_timer] = "cancelled"]
    ELSE g

\* end_calculation that leaves the flag and the buttons as they are.
end_calculation_without_reset(g) ==
    cancel_timer([g EXCEPT !.calculation_complete = FALSE])

\* end_calculation, the last callback a worker schedules.
end_calculation(g) ==
    enable_buttons(cancel_timer(
        [g EXCEPT !.calculation_in_progress = FALSE,
                  !.calculation_complete = FALSE]))

\* update_gui of display_results, for the plan of calculation run.
update_gui(g, run) ==
    IF ~g.calculation_in_progress
    THEN g
    ELSE enable_buttons(
             [g EXCEPT !.result_text = [text |-> PlanText, run |-> run],
                       !.calculation_in_progress = FALSE])

\* check_calculation_status, the polling callback.
check_calculation_status(g) ==
    IF g.calculation_complete
    THEN enable_buttons([g EXCEPT !.calculation_in_progress = FALSE])
    ELSE IF g.calculation_in_progress
    THEN IF g.now - g.calculation_start_time > StatusTimeout
         THEN enable_buttons(after(
                  [g EXCEPT !.calculation_in_progress = FALSE,
                            !.timed_out = @ \cup {g.run}],
                  "showerror_timeout", g.run))
         ELSE [g EXCEPT !.status_checks = @ + 1]
    ELSE g

\* handle_timeout, run by the timer thread of calculation run.
handle_timeout(g, run) ==
    IF g.calculation_in_progress /\ ~g.calculation_complete
    THEN after(g, "handle_timeout_gui", run)
    ELSE g

\* handle_timeout_gui, the callback handle_timeout schedules.
handle_timeout_gui(g) ==
    IF g.calculation_in_progress /\ ~g.calculation_complete
    THEN enable_buttons(
             [g EXCEPT !.calculation_in_progress = FALSE,
                       !.result_text = [text |-> TimeoutMessage, run |-> g.run],
                       !.timed_out = @ \cup {g.run}])
    ELSE g

\* run_calculation when no calculation is in progress: calculation run
\* begins, with its timer, its worker thread and its first status check.
start_calculation(g, run) ==
    [disable_buttons(g)
        EXCEPT !.calculation_in_progress = TRUE,
               !.calculation_complete = FALSE,
               !.calculation_start_time = g.now,
               !.run = run,
               !.result_text = [text |-> PleaseWait, run |-> run],
               !.calculation_timer = run,
               !.timer[run] = "started",
               !.worker[run] = "calculate",
               !.start_time[run] = g.now,
               !.status_checks = @ + 1]

\* What calculate_buy_plan does in the worker: return a plan or raise.
CalculationOutcomes == {"plan", "error"}

GuiInit ==
    /\ input_values = NoRequest
    /\ config = NoConfig
    /\ result = NoOutcome
    /\ prev = NoOutcome
    /\ instruction_text = <<>>
    /\ external_price = None
    /\ parsed = NoParse
    /\ loop = NoLoop
    /\ gui = InitialGui

\* The user presses a calculation button, Return or space.
RunCalculation ==
    /\ IF gui.calculation_in_progress
       THEN UNCHANGED gui
       ELSE /\ gui.run < MaxRuns
            /\ gui' = start_calculation(gui, gui.run + 1)
    /\ UNCHANGED <<engine_vars, parser_vars, loop>>

\* Time passes.
Tick ==
    /\ gui.now < MaxTime
    /\ gui' = [gui EXCEPT !.now = @ + TickSeconds]
    /\ UNCHANGED <<engine_vars, parser_vars, loop>>

\* calculate_buy_plan returns or raises; a call that took longer than
\* CalculationLimit raises TimeoutError.
WorkerCalculate(run) ==
    /\ gui.worker[run] = "calculate"
    /\ \E outcome \in CalculationOutcomes :
          gui' = IF \/ outcome = "error"
                    \/ gui.now - gui.start_time[run] > CalculationLimit
                 THEN [gui EXCEPT !.worker[run] = "except"]
                 ELSE [gui EXCEPT !.worker[run] = "set_complete"]
    /\ UNCHANGED <<engine_vars, parser_vars, loop>>

\* calculation_complete.set()
WorkerSetComplete(run) ==
    /\ gui.worker[run] = "set_complete"
    /\ gui' = [gui EXCEPT !.worker[run] = "display",
                          !.calculation_complete = TRUE]
    /\ UNCHANGED <<engine_vars, parser_vars, loop>>

\* root.after(0, lambda: display_results(...))
WorkerScheduleDisplay(run) ==
    /\ gui.worker[run] = "display"
    /\ gui' = [after(gui, "display_results", run)
                  EXCEPT !.worker[run] = "finally"]
    /\ UNCHANGED <<engine_vars, parser_vars, loop>>

\* except: root.after(0, lambda: messagebox.showerror(...))
WorkerScheduleError(run) ==
    /\ gui.worker[run] = "except"
    /\ gui' = [after(gui, "showerror", run)
                  EXCEPT !.worker[run] = "finally"]
    /\ UNCHANGED <<engine_vars, parser_vars, loop>>

\* finally: the timer the global names at this moment is cancelled.
WorkerCancelTimer(run) ==
    /\ gui.worker[run] = "finally"
    /\ gui' = [cancel_timer(gui)
                  EXCEPT !.worker[run] = "end"]
    /\ UNCHANGED <<engine_vars, parser_vars, loop>>

\* root.after(0, end_calculation); the thread ends.
WorkerScheduleEnd(run) ==
    /\ gui.worker[run] = "end"
    /\ gui' = [after(gui, "end_calculation", run)
                  EXCEPT !.worker[run] = "finished"]
    /\ UNCHANGED <<engine_vars, parser_vars, loop>>

Worker(run) ==
    \/ WorkerCalculate(run)
    \/ WorkerSetComplete(run)
    \/ WorkerScheduleDisplay(run)
    \/ WorkerScheduleError(run)
    \/ WorkerCancelTimer(run)
    \/ WorkerScheduleEnd(run)

\* The timer of calculation run fires and its thread runs handle_timeout.
TimerExpires(run) ==
    /\ gui.timer[run] = "started"
    /\ gui.now - gui.start_time[run] >= TimerInterval
    /\ gui' = handle_timeout([gui EXCEPT !.timer[run] = "finished"], run)
    /\ UNCHANGED <<engine_vars, parser_vars, loop>>

\* The main loop is about to run callback, the oldest of root.after(0, ...).
Scheduled(callback) ==
    /\ gui.after_queue # <<>>
    /\ Head(gui.after_queue).callback = callback

\* gui without that callback.
Dequeued == [gui EXCEPT !.after_queue = Tail(@)]

\* display_results: root.after(0, update_gui)
DisplayResults ==
    /\ Scheduled("display_results")
    /\ gui' = after(Dequeued, "update_gui", Head(gui.after_queue).run)
    /\ UNCHANGED <<engine_vars, parser_vars, loop>>

UpdateGui ==
    /\ Scheduled("update_gui")
    /\ gui' = update_gui(Dequeued, Head(gui.after_queue).run)
    /\ UNCHANGED <<engine_vars, parser_vars, loop>>

EndCalculation ==
    /\ Scheduled("end_calculation")
    /\ gui' = end_calculation(Dequeued)
    /\ UNCHANGED <<engine_vars, parser_vars, loop>>

\* messagebox.showerror of the worker's except clause
ShowError ==
    /\ Scheduled("showerror")
    /\ gui' = [Dequeued EXCEPT !.messagebox = ErrorDialog]
    /\ UNCHANGED <<engine_vars, parser_vars, loop>>

\* messagebox.showerror of check_calculation_status
ShowTimeoutError ==
    /\ Scheduled("showerror_timeout")
    /\ gui' = [Dequeued EXCEPT !.messagebox = TimeoutDialog]
    /\ UNCHANGED <<engine_vars, parser_vars, loop>>

HandleTimeoutGui ==
    /\ Scheduled("handle_timeout_gui")
    /\ gui' = handle_timeout_gui(Dequeued)
    /\ UNCHANGED <<engine_vars, parser_vars, loop>>

\* The main loop runs the oldest callback of root.after(0, ...).
RunCallback ==
    \/ DisplayResults
    \/ UpdateGui
    \/ EndCalculation
    \/ ShowError
    \/ ShowTimeoutError
    \/ HandleTimeoutGui

\* The main loop runs a pending check_calculation_status.
CheckCalculationStatus ==
    /\ gui.status_checks > 0
    /\ gui' = check_calculation_status([gui EXCEPT !.status_checks = @ - 1])
    /\ UNCHANGED <<engine_vars, parser_vars, loop>>

GuiNext ==
    \/ RunCalculation
    \/ Tick
    \/ \E run \in Runs : Worker(run)
    \/ \E run \in Runs : TimerExpires(run)
    \/ RunCallback
    \/ CheckCalculationStatus

\* Threads that can run do run and the main loop serves both its callbacks
\* of root.after(0, ...) and its status checks; nothing obliges the user to
\* start a calculation or the clock to reach a time limit.
GuiSpec ==
    /\ GuiInit
    /\ [][GuiNext]_vars
    /\ \A run \in Runs : WF_vars(Worker(run))
    /\ \A run \in Runs : WF_vars(TimerExpires(run))
    /\ WF_vars(RunCallback)
    /\ WF_vars(CheckCalculationStatus)

---------------------------------------------------------------------------
(* Properties *)

\* The validation rules of the specification, in their order.
RuleHolds(k, req) ==
    CASE k = 1 -> req.funds > 0
      [] k = 2 -> req.initial_price > 0
      [] k = 3 -> req.stop_loss_price > 0
      [] k = 4 -> req.num_grids > 0
      [] k = 5 -> req.allocation_method \in {0, 1, 2}
      [] k = 6 -> req.stop_loss_price < req.initial_price
      [] k = 7 -> req.funds >= req.initial_price
      [] k = 8 -> req.num_grids <= HardMaxGrids

RuleMessage(k) ==
    CASE k = 1 -> ErrFunds
      [] k = 2 -> ErrInitialPrice
      [] k = 3 -> ErrStopLoss
      [] k = 4 -> ErrNumGrids
      [] k = 5 -> ErrMethod
      [] k = 6 -> ErrStopNotBelow
      [] k = 7 -> ErrFundsBelowPrice
      [] k = 8 -> ErrTooManyGrids

ValidRequest(req) == \A k \in 1..8 : RuleHolds(k, req)

ViolatedRules(req) == {k \in 1..8 : ~RuleHolds(k, req)}

FirstViolation(req) ==
    RuleMessage(CHOOSE k \in ViolatedRules(req) :
                    \A j \in ViolatedRules(req) : k <= j)

\* A valid request that is also within the grid ceiling configured when the
\* call was made.
Accepted(outcome) ==
    /\ ValidRequest(outcome.args)
    /\ outcome.args.num_grids <= outcome.config.max_num_grids

\* What the caller receives.
SameReturn(a, b) ==
    /\ a.status = b.status
    /\ a.error = b.error
    /\ a.buy_plan = b.buy_plan
    /\ a.warning = b.warning

\* C1: for every valid request and each allocation method the total cost
\* sum(price * quantity) of the plan calculate_buy_plan returns does not
\* exceed funds.
C1_TotalCostWithinFunds ==
    (IsBuyPlanCall(result) /\ ValidRequest(result.args))
        => PlanCost(result.buy_plan) <= result.args.funds

C4_InvalidRequestRejected ==
    (IsBuyPlanCall(result) /\ ~ValidRequest(result.args))
        => /\ result.buy_plan = <<>>
           /\ result.status \in {"raised", "returned_error"}
           /\ result.error = FirstViolation(result.args)

\* C5: with allocation method EQUAL (0) and at least two grids, before budget
\* reconciliation every grid has the same share count
\* max(1, floor(max_shares / n)).
C5_EqualMethodUniformShares ==
    (/\ IsBuyPlanCall(result)
     /\ Accepted(result)
     /\ result.args.allocation_method = 0
     /\ result.num_grids >= 2)
        => \A i \in 1..Len(result.initial_shares) :
              result.initial_shares[i] =
                  Max(1, result.max_shares \div result.num_grids)

\* The request with funds replaced by the funds left after the reserve.
AvailableRequest(outcome) ==
    [outcome.args EXCEPT
        !.funds = outcome.args.funds
                    - (outcome.args.funds * outcome.percentage) \div 100]

ReserveDelegates(outcome) ==
    /\ outcome.reserved_x100 = outcome.args.funds * outcome.percentage
    /\ outcome.op = "calculate_with_reserve"
          => SameReturn(outcome, calculate_buy_plan(AvailableRequest(outcome)))
    /\ outcome.op = "TradingLogic.calculate_with_reserve"
          => SameReturn(outcome,
                        TradingLogic_calculate_buy_plan(outcome.config,
                                                        AvailableRequest(outcome)))

IsReserveCall(outcome) ==
    outcome.op \in {"calculate_with_reserve", "TradingLogic.calculate_with_reserve"}

C7_RequestNotModified ==
    result.op # "none" => input_values = result.args

\* C8: two calls of calculate_buy_plan with identical arguments return
\* identical results, whatever configuration changes happen between them.
C8_SameArgumentsSameResult ==
    (/\ IsBuyPlanCall(prev)
     /\ prev.op = result.op
     /\ prev.args = result.args)
        => SameReturn(prev, result)

C10_DowngradeReportedInWarning ==
    (IsBuyPlanCall(result) /\ Accepted(result))
        => LET max_shares == result.args.funds \div result.args.stop_loss_price
           IN  IF max_shares < result.args.num_grids
               THEN /\ Len(result.buy_plan) = max_shares
                    /\ result.warning = LogGridsReduced
               ELSE Len(result.buy_plan) = result.args.num_grids

\* The number of entries of a plan that buy a single share.
SingleShareCount(buy_plan) ==
    Cardinality({i \in 1..Len(buy_plan) : buy_plan[i].quantity = 1})

\* C11: for a call that returns a plan, the warning is non-empty exactly when
\* the number of entries with quantity 1 in the returned plan is greater than
\* (number of grids actually used) // 2, and it is the empty string otherwise.
C11_ThinPlanWarning ==
    (IsBuyPlanCall(result) /\ result.status = "ok")
        => /\ result.warning # ""
              <=> SingleShareCount(result.buy_plan) > Len(result.buy_plan) \div 2
           /\ result.warning \in {"", WarnSingleShare}

\* A downgraded plan: two single-share entries exceed 2 // 2 but not the
\* requested 4 // 2.
C11_Witness ==
    /\ IsBuyPlanCall(result)
    /\ result.status = "ok"
    /\ result.args.num_grids = 4
    /\ Len(result.buy_plan) = 2
    /\ SingleShareCount(result.buy_plan) = 2
    /\ result.warning = WarnSingleShare

\* C13: for methods EXPONENTIAL (1) and LINEAR (2) on a descending grid of at
\* least two prices, calculate_weights returns one positive share count per
\* price and the counts never decrease in generation order, so that a lower
\* price never gets fewer shares and the lowest price holds the maximum.
C13_WeightsFavourLowPrices ==
    (/\ IsBuyPlanCall(result)
     /\ result.status = "ok"
     /\ result.used.allocation_method \in {1, 2}
     /\ Len(result.prices) >= 2)
        => LET shares == result.initial_shares
               n == Len(result.prices)
           IN  /\ Len(shares) = n
               /\ \A i \in 1..n : shares[i] >= 1
               /\ \A i \in 1..n : \A j \in 1..n :
                     result.prices[i] < result.prices[j] => shares[i] >= shares[j]
               /\ shares[n] = SeqMax(shares)

C13_Witness ==
    /\ IsBuyPlanCall(result)
    /\ result.status = "ok"
    /\ result.used.allocation_method = 1
    /\ Len(result.prices) = 4
    /\ result.initial_shares[1] < result.initial_shares[2]
    /\ result.initial_shares[3] < result.initial_shares[4]

\* The rules of validation that do not concern the grid count.
OtherwiseValid(req) == \A k \in {1, 2, 3, 5, 6, 7} : RuleHolds(k, req)

\* C12: a request that is valid apart from its grid count is rejected exactly
\* when num_grids < 1 or num_grids exceeds the configured ceiling, so that
\* under a configured ceiling M every num_grids in 1..M is accepted.
C12_ConfiguredGridCeiling ==
    (/\ result.op = "TradingLogic.calculate_buy_plan"
     /\ OtherwiseValid(result.args))
        => (result.status # "ok"
              <=> \/ result.args.num_grids < 1
                  \/ result.args.num_grids > result.config.max_num_grids)

\* C14: the maximum-loss percentage reported with a plan is
\* max_loss / total_cost * 100, where total_cost = sum(price * quantity) and
\* max_loss = total_cost - stop_loss_price * total_shares (both sides are
\* compared as fractions, cross-multiplied).
C14_MaxLossPercentage ==
    (/\ result.status = "ok"
     /\ result.max_loss_percentage.reported
     /\ ValidRequest(result.used))
        => LET total_cost == PlanCost(result.buy_plan)
               max_loss == total_cost
                             - result.used.stop_loss_price
                                 * PlanShares(result.buy_plan)
               reported == result.max_loss_percentage
           IN  reported.max_loss * total_cost = max_loss * reported.divisor

\* A parse call has been made.
IsParseCall(outcome) ==
    outcome.op \in {"parse_trading_instruction",
                    "TradingLogic.parse_trading_instruction"}

\* t is the text of a number: digits with at most one decimal point, which
\* stands between two digits.
IsNumeral(t) ==
    /\ Len(t) >= 1
    /\ \A i \in 1..Len(t) : t[i] \in Digits \cup {DecimalPoint}
    /\ t[1] \in Digits /\ t[Len(t)] \in Digits
    /\ Cardinality({i \in 1..Len(t) : t[i] = DecimalPoint}) <= 1

\* The first digit of t stands at index i.
FirstDigitAt(t, i) ==
    t[i] \in Digits /\ \A k \in 1..(i - 1) : t[k] \notin Digits

\* The number that ends at index k of t is not continued after it.
NumberEndsAt(t, k) ==
    \/ k = Len(t)
    \/ /\ t[k + 1] \notin Digits
       /\ ~(t[k + 1] = DecimalPoint /\ k + 2 <= Len(t) /\ t[k + 2] \in Digits)

\* The price part of t is the range A-B: the first number A = t[i..j], a
\* range marker, and the number B = t[j+2..k].
IsRange(t, i, j, k) ==
    /\ FirstDigitAt(t, i)
    /\ IsNumeral(SubSeq(t, i, j))
    /\ t[j + 1] \in RangeMarkers
    /\ IsNumeral(SubSeq(t, j + 2, k))
    /\ NumberEndsAt(t, k)

\* The price part of t is the single price P = t[i..j]: no second number
\* follows it, directly or after a range marker and blanks.
IsSinglePrice(t, i, j) ==
    /\ FirstDigitAt(t, i)
    /\ IsNumeral(SubSeq(t, i, j))
    /\ NumberEndsAt(t, j)
    /\ \A m \in (j + 1)..Len(t) :
          t[m] \in Digits =>
             \E q \in (j + 1)..(m - 1) :
                 /\ t[q] \notin WhiteSpace
                 /\ ~(q = j + 1 /\ t[q] \in RangeMarkers)

\* C15: a parse fails whenever the instruction holds no symbol (no letter),
\* or no number that can serve as a price (no digit), or a price range with
\* low > high; and it never returns a result whose symbol or current_price is
\* missing.
C15_ParseFailsWithoutSymbolOrPrice ==
    IsParseCall(parsed)
        => /\ (\A i \in 1..Len(instruction_text) :
                  instruction_text[i] \notin UpperCaseLetters \cup LowerCaseLetters)
                 => parsed.status = "raised"
           /\ (\A i \in 1..Len(instruction_text) :
                  instruction_text[i] \notin Digits)
                 => parsed.status = "raised"
           /\ (\E i, j, k \in 1..Len(instruction_text) :
                  /\ j + 2 <= k
                  /\ IsRange(instruction_text, i, j, k)
                  /\ float(SubSeq(instruction_text, i, j))
                       > float(SubSeq(instruction_text, j + 2, k)))
                 => parsed.status = "raised"
           /\ parsed.status = "ok"
                 => parsed.symbol # NoGroup /\ parsed.current_price # None

C17_CurrentPriceIsMidpoint ==
    (IsParseCall(parsed) /\ parsed.status = "ok")
        => \A i, j, k \in 1..Len(instruction_text) :
              (/\ j + 2 <= k
               /\ IsRange(instruction_text, i, j, k)
               /\ float(SubSeq(instruction_text, i, j))
                    <= float(SubSeq(instruction_text, j + 2, k)))
                 => 2 * parsed.current_price =
                       float(SubSeq(instruction_text, i, j))
                         + float(SubSeq(instruction_text, j + 2, k))

\* The number the instruction names after its stop-loss marker, None when
\* it names none.
ExplicitStopLoss(t) ==
    IF search_marked_number(str_upper(t), StopLossMarker) = NoGroup THEN None
    ELSE float(search_marked_number(str_upper(t), StopLossMarker))

\* C18: in a successful parse stop_loss is never missing; an explicit
\* stop-loss S below current_price is kept and one at or above it is replaced
\* by 0.95 * current_price; without an explicit stop-loss, stop_loss is the
\* low of the price range when the instruction has a range.  (For a single
\* price P, which has price_range = (P, P), both P and 0.95 * P are accepted
\* here.)
C18_StopLossResolution ==
    (/\ IsParseCall(parsed)
     /\ parsed.status = "ok"
     /\ parsed.symbol # NoGroup
     /\ parsed.current_price # None)
        => LET S == ExplicitStopLoss(instruction_text)
               low == parsed.price_range[1]
               high == parsed.price_range[2]
           IN  /\ parsed.stop_loss # None
               /\ (S # None /\ S < parsed.current_price)
                     => parsed.stop_loss = S
               /\ (S # None /\ S >= parsed.current_price)
                     => parsed.stop_loss = parsed.current_price
                                            - parsed.current_price \div 20
               /\ (S = None /\ low # high)
                     => parsed.stop_loss = low
               /\ (S = None /\ low = high)
                     => \/ parsed.stop_loss = low
                        \/ parsed.stop_loss = parsed.current_price
                                            - parsed.current_price \div 20

\* parsed is what the same parser returns for the same text without an
\* external price, the price_warning aside.
SameAsWithoutExternalPrice ==
    LET alone == IF parsed.op = "parse_trading_instruction"
                 THEN parse_trading_instruction(instruction_text, None)
                 ELSE TradingLogic_parse_trading_instruction(instruction_text,
                                                             None)
    IN  /\ parsed.status = alone.status
        /\ parsed.error = alone.error
        /\ parsed.symbol = alone.symbol
        /\ parsed.current_price = alone.current_price
        /\ parsed.stop_loss = alone.stop_loss
        /\ parsed.price_range = alone.price_range
        /\ parsed.resistance = alone.resistance
        /\ alone.price_warning = ""

\* |external_price - current_price| / current_price > 0.10
DiffersByMoreThanTenPercent(price, current_price) ==
    \/ price - current_price > current_price \div 10
    \/ current_price - price > current_price \div 10

C20_LeftoverLoopProgress ==
    [][DistributeOneShare =>
          \E i \in 1..Len(loop.buy_prices) :
             /\ loop'.buy_quantities =
                    [loop.buy_quantities EXCEPT ![i] = @ + 1]
             /\ float_lt(<<0, 1>>, loop.buy_prices[i])
             /\ float_lt(loop'.remaining_funds, loop.remaining_funds)]_vars

\* The engine call returned a plan.
PlanReturned(outcome) == outcome.status = "ok" /\ outcome.buy_plan # <<>>

\* The share counts of the returned plan, and a plan's cost at the exact
\* grid prices, in units of 1 / den.
FinalQuantities(outcome) ==
    [i \in 1..Len(outcome.buy_plan) |-> outcome.buy_plan[i].quantity]
ExactCost(outcome, quantities) == Dot(outcome.prices, quantities)

\* Budget reconciliation was needed for the outcome.
ReconciliationNeeded(outcome) ==
    ExactCost(outcome, outcome.initial_shares) > outcome.used.funds * outcome.den

\* floor(shares_i * funds / total_cost) >= 1 for every grid
NoGridClamped(outcome) ==
    \A i \in 1..Len(outcome.initial_shares) :
        (outcome.initial_shares[i] * outcome.used.funds * outcome.den)
            \div ExactCost(outcome, outcome.initial_shares) >= 1

\* C21: the budget is overshot only through the one-share floor: when
\* budget reconciliation is not needed, or when it clamps no grid up to one
\* share, the cost of the returned plan does not exceed funds.
C21_OvershootOnlyFromOneShareFloor ==
    (PlanReturned(result)
        /\ (~ReconciliationNeeded(result) \/ NoGridClamped(result)))
        => ExactCost(result, FinalQuantities(result))
              <= result.used.funds * result.den

\* A plan of several grids that was scaled down without a clamp and then
\* received leftover shares.
C21_Witness ==
    /\ PlanReturned(result)
    /\ Len(result.buy_plan) >= 3
    /\ ReconciliationNeeded(result)
    /\ NoGridClamped(result)
    /\ FinalQuantities(result)
          # scale_quantities(result.prices, result.den, result.initial_shares,
                             result.used.funds)
    /\ ExactCost(result, FinalQuantities(result))
          <= result.used.funds * result.den

\* The quantities with which the stepped call entered its while loop.
EntryQuantities ==
    loop_quantities(loop.funds, loop.buy_prices, loop.initial_shares)

\* C22: during leftover distribution each extra share goes to the first grid
\* in generation order (the highest price first) whose price is at most
\* remaining_funds, the scan starting from the first grid in every
\* iteration: the grid that receives the share is one before which every
\* grid costs more than remaining_funds; and no step of the pass decreases a
\* share count.
C22_ShareGoesToFirstAffordableGrid ==
    [][/\ DistributeOneShare =>
             \E i \in 1..Len(loop.buy_prices) :
                /\ float_le(loop.buy_prices[i], loop.remaining_funds)
                /\ \A j \in 1..(i - 1) :
                      /\ float_lt(loop.remaining_funds, loop.buy_prices[j])
                      /\ float_le(loop.buy_prices[i], loop.buy_prices[j])
                /\ loop'.buy_quantities =
                       [loop.buy_quantities EXCEPT ![i] = @ + 1]
       /\ (loop.pc = "while") =>
             \A k \in 1..Len(loop.buy_quantities) :
                loop'.buy_quantities[k] >= loop.buy_quantities[k]]_vars

\* The pass has given a share to a grid that is not the first one.
C22_Witness ==
    /\ loop.pc = "while"
    /\ loop.iterations >= 1
    /\ \E i \in 2..Len(loop.buy_quantities) :
          loop.buy_quantities[i] > EntryQuantities[i]

\* Fractions added and compared without rounding.
ExactSum(x, y) == <<x[1] * y[2] + y[1] * x[2], x[2] * y[2]>>
ExactEqual(x, y) == x[1] * y[2] = y[1] * x[2]

\* The cost of the first k grids of the stepped call at its present
\* quantities, without rounding.
RECURSIVE LoopExactCost(_)
LoopExactCost(k) ==
    IF k = 0 THEN <<0, 1>>
    ELSE ExactSum(LoopExactCost(k - 1),
                  <<loop.buy_prices[k][1] * loop.buy_quantities[k],
                    loop.buy_prices[k][2]>>)

\* remaining_funds as the stepped call entered its while loop.
EntryRemaining ==
    float_sub(loop.funds,
              float_cost(loop.buy_prices, EntryQuantities,
                         Len(loop.buy_prices)))

\* C23: throughout leftover distribution total cost + remaining_funds =
\* funds; remaining_funds is never negative when it was not negative as the
\* pass started; and when the pass has ended remaining_funds <=
\* min(buy_prices).
C23_FundsConservedDuringDistribution ==
    loop.pc \in {"while", "done"}
        => /\ ExactEqual(ExactSum(LoopExactCost(Len(loop.buy_prices)),
                                  loop.remaining_funds),
                         loop.funds)
           /\ float_le(<<0, 1>>, EntryRemaining)
                 => float_le(<<0, 1>>, loop.remaining_funds)
           /\ loop.pc = "done"
                 => float_le(loop.remaining_funds, float_min(loop.buy_prices))

\* Total shares of the stepped call's plan, floor(funds / initial_price) of
\* its request, and the call having left its while loop.
RECURSIVE LoopShares(_)
LoopShares(k) ==
    IF k = 0 THEN 0 ELSE LoopShares(k - 1) + loop.buy_quantities[k]
SharesAtInitialPrice ==
    (loop.funds[1] * loop.max_price[2]) \div (loop.funds[2] * loop.max_price[1])
LoopExited == loop.pc = "done"

\* C24: for every valid request the returned plan buys at least as many
\* shares as the whole budget buys at the initial price:
\* total shares >= floor(funds / initial_price).
C24_AtLeastSharesAtInitialPrice ==
    LoopExited => LoopShares(Len(loop.buy_quantities)) >= SharesAtInitialPrice

\* C25: a plan of a single grid (requested or after the downgrade): the
\* share allocator returns [max_shares] for every allocation method, and the
\* returned plan is one entry at initial_price with quantity
\* floor(funds / initial_price), whose cost does not exceed funds.
C25_SingleGridPlan ==
    (LoopExited /\ loop.num_grids = 1)
        => /\ \A method \in {0, 1, 2} :
                 float_calculate_weights(loop.buy_prices, method,
                                         loop.max_shares)
                    = <<loop.max_shares>>
           /\ loop.buy_prices = <<loop.max_price>>
           /\ loop.buy_quantities = <<SharesAtInitialPrice>>
           /\ loop.buy_quantities[1] * loop.max_price[1]
                 <= loop.funds[1] * loop.max_price[2]

\* C26: every instruction that parses successfully yields
\* 0 < stop_loss < current_price, so the pair, used as initial_price and
\* stop_loss_price with funds >= current_price, one grid and method 0,
\* passes validate_inputs.
C26_ParsedPairPassesValidation ==
    (IsParseCall(parsed) /\ parsed.status = "ok")
        => /\ 0 < parsed.stop_loss
           /\ parsed.stop_loss < parsed.current_price
           /\ validate_inputs(parsed.current_price, parsed.current_price,
                              parsed.stop_loss, 1, 0) = NoError

\* C27: in the legacy GUI, when a worker has completed calculate_buy_plan
\* and no timeout has fired, the plan is written to the result area: in every
\* interleaving of display_results, end_calculation and
\* check_calculation_status, update_gui runs while calculation_in_progress is
\* still true and is never skipped.  (No timeout fires before TimerInterval
\* seconds have passed.)
C27_UpdateGuiNeverSkipped ==
    [][(UpdateGui /\ gui.now < TimerInterval)
          => gui.calculation_in_progress]_vars

\* The calculations whose worker thread is executing.
Executing ==
    {run \in Runs : gui.worker[run] \notin {"unstarted", "finished"}}

\* C28: at most one calculation worker thread is running at any time, and
\* calculation_in_progress is false only when no worker is still executing.
C28_AtMostOneWorker ==
    /\ Cardinality(Executing) <= 1
    /\ ~gui.calculation_in_progress => Executing = {}

\* The callbacks a worker gives to root.after, display_results' own included.
WorkerCallbacks ==
    {"display_results", "update_gui", "showerror", "end_calculation"}

\* A step of the worker of a calculation announced as timed out, or of one
\* of the callbacks it scheduled.
LateStep(run) ==
    /\ run \in gui.timed_out
    /\ \/ Worker(run)
       \/ /\ gui.after_queue # <<>>
          /\ Head(gui.after_queue).run = run
          /\ Head(gui.after_queue).callback \in WorkerCallbacks
          /\ RunCallback

\* C29: the plan of a calculation that was declared timed out is never
\* displayed: what its worker does afterwards changes neither the result
\* area nor, once a later calculation has started, that calculation's
\* completion flag, calculation_in_progress or timer.
C29_LateResultDropped ==
    [][\A run \in Runs :
          LateStep(run)
             => /\ gui'.result_text = gui.result_text
                /\ gui.run # run
                      => /\ gui'.calculation_complete = gui.calculation_complete
                         /\ gui'.calculation_in_progress
                               = gui.calculation_in_progress
                         /\ gui'.timer[gui.run] = gui.timer[gui.run]]_vars

\* C30: after every run_calculation that starts a worker,
\* calculation_in_progress eventually becomes false and the buttons are
\* enabled again, whether the worker succeeds, raises or is declared timed
\* out (threads and callbacks run).
C30_CalculationEventuallyEnds ==
    gui.calculation_in_progress
        ~> (~gui.calculation_in_progress /\ gui.buttons = "normal")

\* The worker of the first calculation raised: the error dialog was shown,
\* end_calculation has run, the flag is false and the buttons are enabled.
C30_Witness ==
    /\ gui.run = 1
    /\ gui.worker[1] = "finished"
    /\ gui.messagebox = ErrorDialog
    /\ gui.after_queue = <<>>
    /\ ~gui.calculation_in_progress
    /\ gui.buttons = "normal"

=============================================================================
